---- MODULE Spec2Model ----
(***************************************************************************)
(* The voc_processor ingestion pipeline of                                 *)
(* backend/python/analytics-processor-service:                             *)
(*   worker.py               ConsumerWorker (start, stop, _run,            *)
(*                           _process_batch)                               *)
(*   nlp/pipeline.py         SimpleCache, rule_based_sentiment,            *)
(*                           call_model_batch_sync, annotate_nlp           *)
(*   repo/clickhouse_repo.py ClickHouseRepo.insert_events (tenacity retry) *)
(*   models/events.py        BaseEvent                                     *)
(*   main.py                 run (start, wait for the signal, stop)        *)
(*   api/app.py              summary (the Read API's query)                *)
(*   kafka_client.py         make_consumer (manual commits)                *)
(*                                                                         *)
(* Python dicts are functions over Keys; a key that is not in the dict     *)
(* maps to Absent.  Every value is a record [tag, v] so that values of     *)
(* different Python types can be compared.                                 *)
(***************************************************************************)
EXTENDS Integers, Sequences, FiniteSets, TLC

(***************************************************************************)
(* Bounds of the model.                                                    *)
(***************************************************************************)
\* Truncation length of a transcript.  pipeline.py:38 cuts at 20000
\* characters; the model cuts token sequences at a small length so that
\* texts longer than the cut exist in the input pool.
TextLimit == 2
\* Longest event list handed to one direct annotate_nlp call.
MaxEvents == 2
\* Number of direct annotate_nlp calls in one process lifetime.
MaxCalls == 2
\* Flush threshold of the batch.  worker.py:14 sets BATCH_SIZE = 500; the
\* model runs the same comparisons against a small threshold.
BATCH_SIZE == 3
\* Messages the event log holds per partition.
MaxOffset == 2
\* Last reading of the monotonic clock.
MaxTime == 2
\* Number of times the process is killed and started again.
MaxCrashes == 1
\* Number of successive direct _process_batch calls.
MaxFlushes == 2

(***************************************************************************)
(* Program constants.                                                      *)
(***************************************************************************)
BATCH_FLUSH_SECONDS == 2
\* @retry(..., stop=stop_after_attempt(5))
stop_after_attempt == 5

(***************************************************************************)
(* Python values.                                                          *)
(***************************************************************************)
Absent == [tag |-> "absent", v |-> <<>>]
None == [tag |-> "None", v |-> <<>>]
Str(s) == [tag |-> "str", v |-> s]
Float(n) == [tag |-> "float", v |-> <<n>>]
DateTime == [tag |-> "datetime", v |-> <<>>]
Uuid(p, o) == [tag |-> "UUID", v |-> <<p, o>>]
\* A reference to the dict that holds the value (e["payload"] = e).
SelfRef == [tag |-> "self", v |-> <<>>]

Keys ==
    {"event_id", "tenant_id", "timestamp", "event_type", "metadata",
     "transcript", "sentiment", "topic", "processed_at", "payload", "ts"}

\* dict.get(k, default)
Get(e, k, default) == IF e[k] = Absent THEN default ELSE e[k]

\* A confidence test that looks at the sign: the score itself.
Abs_Signed(n) == n

Abs(n) == IF n < 0 THEN -n ELSE n

Take(s, n) == IF Len(s) <= n THEN s ELSE SubSeq(s, 1, n)

(***************************************************************************)
(* nlp/pipeline.py                                                         *)
(***************************************************************************)
\* A text is a sequence of tokens; a keyword of the scorer is one token.
pos == {"good", "great", "thank", "satisfied"}
neg == {"bad", "angry", "hate", "not happy", "frustrat"}

Contains(text, w) == \E i \in 1..Len(text) : text[i] = w

rule_based_sentiment(text) ==
    Cardinality({w \in pos : Contains(text, w)})
        - Cardinality({w \in neg : Contains(text, w)})

\* call_model_batch_sync: the placeholder model scores with the heuristic.
call_model_batch_sync(texts) ==
    [i \in 1..Len(texts) |-> rule_based_sentiment(texts[i])]

\* (e.get("transcript") or "")[:20000]
TextOf(e) ==
    LET t == Get(e, "transcript", None)
    IN  IF t.tag = "str" THEN Take(t.v, TextLimit) ELSE <<>>

\* sha256(text.encode()).hexdigest(): distinct texts get distinct keys.
Sha256(text) == [tag |-> "sha256", v |-> text]

\* SimpleCache: a dict from key to {"sentiment", "topic"}.
NoEntry == [sentiment |-> Absent, topic |-> Absent]
CacheGet(c, key) == IF key \in DOMAIN c THEN c[key] ELSE NoEntry
CacheSet(c, key, value) ==
    [k \in DOMAIN c \cup {key} |-> IF k = key THEN value ELSE c[k]]
\* "if cached:" a dict of two keys is true, None is false.
Truthy(cached) == cached # NoEntry

\* The four places where annotate_nlp finalizes a record.
SetAnnotation(e, sentiment, topic) ==
    [e EXCEPT !["sentiment"] = sentiment,
              !["topic"] = topic,
              !["processed_at"] = DateTime,
              !["payload"] = Get(e, "payload", SelfRef)]

\* An empty-text path that leaves processed_at out.
AnnotateEmpty_NoStamp(e) ==
    [e EXCEPT !["sentiment"] = None, !["topic"] = None,
              !["payload"] = Get(e, "payload", SelfRef)]

AnnotateEmpty(e) == SetAnnotation(e, None, None)

AnnotateCached(e, cached) == SetAnnotation(e, cached.sentiment, cached.topic)

AnnotateHeuristic(e, score) == SetAnnotation(e, Float(score), None)

AnnotateModel(e, score) == SetAnnotation(e, Float(score), None)

\* The first loop of annotate_nlp.  st holds the events (mutated in place),
\* the cache, the texts and idxs collected for the model, and the keys the
\* call read from and wrote to the cache.
RECURSIVE AnnotateScan(_, _)
AnnotateScan(st, i) ==
    IF i > Len(st.events) THEN st
    ELSE
      LET e == st.events[i]
          text == TextOf(e)
          key == Sha256(text)
          cached == CacheGet(st.cache, key)
          score == rule_based_sentiment(text)
          read == [st EXCEPT !.gets = Append(@, key)]
      IN  IF text = <<>>
            THEN AnnotateScan([st EXCEPT !.events[i] = AnnotateEmpty(e)], i + 1)
          ELSE IF Truthy(cached)
            THEN AnnotateScan(
                   [read EXCEPT !.events[i] = AnnotateCached(e, cached)], i + 1)
          ELSE IF Abs(score) >= 1
            THEN AnnotateScan(
                   [read EXCEPT
                      !.events[i] = AnnotateHeuristic(e, score),
                      !.cache = CacheSet(@, key,
                                  [sentiment |-> Float(score), topic |-> None]),
                      !.sets = Append(@, key)],
                   i + 1)
          ELSE AnnotateScan(
                   [read EXCEPT !.texts = Append(@, text),
                                !.idxs = Append(@, <<i, key>>)],
                   i + 1)

\* A write-back that stores the j-th model score in the j-th event.
RECURSIVE AnnotateWriteBack_ByRank(_, _, _)
AnnotateWriteBack_ByRank(st, scores, j) ==
    IF j > Len(st.idxs) \/ j > Len(scores) THEN st
    ELSE AnnotateWriteBack_ByRank(
           [st EXCEPT
              !.events[j] = AnnotateModel(@, scores[j]),
              !.cache = CacheSet(@, st.idxs[j][2],
                          [sentiment |-> Float(scores[j]), topic |-> None]),
              !.sets = Append(@, st.idxs[j][2])],
           scores, j + 1)

\* The write-back loop over zip(idxs, model_scores).
RECURSIVE AnnotateWriteBack(_, _, _)
AnnotateWriteBack(st, scores, j) ==
    IF j > Len(st.idxs) \/ j > Len(scores) THEN st
    ELSE
      LET i == st.idxs[j][1]
          key == st.idxs[j][2]
      IN  AnnotateWriteBack(
            [st EXCEPT
               !.events[i] = AnnotateModel(@, scores[j]),
               !.cache = CacheSet(@, key,
                           [sentiment |-> Float(scores[j]), topic |-> None]),
               !.sets = Append(@, key)],
            scores, j + 1)

\* for e in events: if "payload" not in e: e["payload"] = e
EnsurePayload(events) ==
    [i \in 1..Len(events) |->
       IF events[i]["payload"] = Absent
         THEN [events[i] EXCEPT !["payload"] = SelfRef]
         ELSE events[i]]

\* annotate_nlp(events) run against cache c: the returned events, the cache
\* after the call, the list given to call_model_batch_sync (<<>> when it is
\* not called) and the cache keys read and written.
annotate_nlp(events, c) ==
    LET scanned == AnnotateScan(
                     [events |-> events, cache |-> c, texts |-> <<>>,
                      idxs |-> <<>>, gets |-> <<>>, sets |-> <<>>], 1)
        done == IF scanned.texts # <<>>
                  THEN AnnotateWriteBack(
                         scanned, call_model_batch_sync(scanned.texts), 1)
                  ELSE scanned
    IN  [events |-> EnsurePayload(done.events),
         cache |-> done.cache,
         texts |-> scanned.texts,
         gets |-> done.gets,
         sets |-> done.sets]

(***************************************************************************)
(* models/events.py and the wire format                                    *)
(***************************************************************************)
Partitions == {0, 1}
Topic == "voc-events"

EmptyDict == [k \in Keys |-> Absent]

\* The transcript the call event at position o of partition p carries on the
\* wire: every other event of the log has one.
WireTranscript(p, o) == IF o % 2 = 0 THEN Str(<<"great">>) ELSE Absent

\* msg.value of a well-formed call event: event_id and timestamp travel as
\* strings, the variant's fields travel beside the base fields.
CallValue(p, o, transcript) ==
    [json |-> TRUE,
     data |-> [EmptyDict EXCEPT
                 !["event_id"] = Str(<<p, o>>),
                 !["tenant_id"] = Str(<<"t">>),
                 !["timestamp"] = Str(<<"iso8601">>),
                 !["event_type"] = Str(<<"call">>),
                 !["transcript"] = transcript]]

\* A payload json.loads rejects.
NotJsonValue == [json |-> FALSE, data |-> EmptyDict]

\* A JSON object without event_id: validation rejects it.
NoIdValue(p, o) ==
    [json |-> TRUE,
     data |-> [CallValue(p, o, Absent).data EXCEPT !["event_id"] = Absent]]

WireValues(p, o) ==
    {CallValue(p, o, WireTranscript(p, o)), NotJsonValue, NoIdValue(p, o)}

\* A parse that checks the JSON syntax only (no validation of the fields).
ParseOk_JsonOnly(value) == value.json

\* json.loads(msg.value); BaseEvent.parse_obj(data) succeed: the payload is
\* JSON and the four required fields of BaseEvent are there.
ParseOk(value) ==
    /\ value.json
    /\ \A k \in {"event_id", "tenant_id", "timestamp", "event_type"} :
          value.data[k].tag = "str"

\* BaseEvent.parse_obj(data).dict(): the five declared fields, typed; any
\* other field of the payload is ignored by the model class.
BaseEventFields ==
    {"event_id", "tenant_id", "timestamp", "event_type", "metadata"}

ParseObj(data) ==
    [k \in Keys |->
       IF k \notin BaseEventFields THEN Absent
       ELSE IF k = "event_id" /\ data[k].tag = "str"
         THEN Uuid(data[k].v[1], data[k].v[2])
       ELSE IF k = "timestamp" /\ data[k].tag = "str" THEN DateTime
       ELSE IF k = "metadata" THEN Get(data, k, None)
       ELSE data[k]]

(***************************************************************************)
(* repo/clickhouse_repo.py                                                 *)
(***************************************************************************)
\* json.dumps(e.get("payload", {})) raises: the payload is the record itself
\* (a circular reference, holding a UUID and datetimes) or a value the
\* encoder does not know.
JsonDumpsRaises(e) ==
    Get(e, "payload", EmptyDict).tag \in {"self", "UUID", "datetime"}

\* One row of the bulk insert, in column order, without the payload string.
RowOf(e) ==
    [event_id |-> Str(Get(e, "event_id", None).v),
     tenant_id |-> Get(e, "tenant_id", None),
     event_type |-> Get(e, "event_type", None),
     ts |-> Get(e, "ts", None),
     sentiment |-> Get(e, "sentiment", None),
     topic |-> Get(e, "topic", None),
     processed_at |-> IF Get(e, "processed_at", None) = None
                        THEN DateTime ELSE e["processed_at"]]

\* Rows built from the last record to the first.
RowsOf_Reversed(events) ==
    [i \in 1..Len(events) |-> RowOf(events[Len(events) + 1 - i])]

\* The rows loop of insert_events raises before client.insert is reached.
RowsRaise(events) == \E i \in 1..Len(events) : JsonDumpsRaises(events[i])

RowsOf(events) == [i \in 1..Len(events) |-> RowOf(events[i])]

(***************************************************************************)
(* State.                                                                  *)
(***************************************************************************)
VARIABLES
    mainPc,       \* main.run / ConsumerWorker.stop: "init", "waiting",
                  \* "joining" (await self._task), "stopped", "raised"
    stopping,     \* self._stopping
    consumer,     \* self.consumer: "none", "started", "stopped"
    taskPc,       \* self._task: "none", "created", "await_msg", "flush",
                  \* "done" (returned), "failed" (ended with an exception)
    batch,        \* _run's batch: (msg, event.dict()) pairs
    last_flush,   \* _run's last_flush
    now,          \* time.monotonic()
    fl,           \* the _process_batch call in progress, or the last one
                  \* (fl.before: the committed offsets when it was called)
    sink,         \* rows of voc_events
    committed,    \* the group's committed offset of each partition
    nextOffset,   \* position of the next message of each partition
    M_CONSUMED,
    M_PROCESSED,
    dropped,      \* (partition, offset) of the messages that failed to parse
    accepted,     \* (partition, offset) of the messages appended to a batch
    flushes,      \* number of _process_batch calls
    commitLog,    \* the commit requests, in order
    insertLog,    \* the rows of every client.insert call, in order
    crashes,      \* number of times the process was killed and restarted
    apiRows,      \* number of rows the last /metrics/summary query read
                  \* (-1: no query yet)
    cache,        \* nlp.pipeline.cache._cache
    calls,        \* number of annotate_nlp calls
    annIn,        \* argument of the last annotate_nlp call
    annOut,       \* what it returned
    annGets,      \* cache keys it read
    annSets,      \* cache keys it wrote
    modelLog,     \* every list given to call_model_batch_sync, in order
    verdicts      \* every (text, sentiment, topic) an annotation produced

workerVars ==
    <<mainPc, stopping, consumer, taskPc, batch, last_flush, now, fl, sink,
      committed, nextOffset, M_CONSUMED, M_PROCESSED, dropped, accepted,
      flushes, commitLog, insertLog>>

nlpVars == <<cache, calls, annIn, annOut, annGets, annSets, modelLog, verdicts>>

\* What lies outside the worker: restarts of the process, the Read API.
envVars == <<crashes, apiRows>>

vars == <<workerVars, nlpVars, envVars>>

NoFlush ==
    [at |-> "idle", kind |-> "none", now |-> 0, msgs |-> <<>>,
     given |-> <<>>, attempt |-> 0, invoked |-> FALSE, inserted |-> FALSE,
     commitRequested |-> FALSE, commit_map |-> <<>>,
     before |-> <<>>]

NlpInit ==
    /\ cache = <<>>
    /\ calls = 0
    /\ annIn = <<>>
    /\ annOut = <<>>
    /\ annGets = <<>>
    /\ annSets = <<>>
    /\ modelLog = <<>>
    /\ verdicts = {}

\* ConsumerWorker.__init__ and the module-level cache = SimpleCache().
WorkerInit ==
    /\ mainPc = "init"
    /\ stopping = FALSE
    /\ consumer = "none"
    /\ taskPc = "none"
    /\ batch = <<>>
    /\ last_flush = 0
    /\ now = 0
    /\ fl = NoFlush
    /\ sink = <<>>
    /\ committed = [p \in Partitions |-> 0]
    /\ nextOffset = [p \in Partitions |-> 0]
    /\ M_CONSUMED = 0
    /\ M_PROCESSED = 0
    /\ dropped = {}
    /\ accepted = {}
    /\ flushes = 0
    /\ commitLog = <<>>
    /\ insertLog = <<>>

EnvInit ==
    /\ crashes = 0
    /\ apiRows = -1

Init == WorkerInit /\ NlpInit /\ EnvInit

\* What one annotate_nlp call leaves in the module state.
AnnotateEffects(events, r) ==
    /\ cache' = r.cache
    /\ calls' = calls + 1
    /\ annIn' = events
    /\ annOut' = r.events
    /\ annGets' = r.gets
    /\ annSets' = r.sets
    /\ modelLog' = IF r.texts # <<>> THEN Append(modelLog, r.texts) ELSE modelLog
    /\ verdicts' = verdicts \cup
         {<<TextOf(events[i]), r.events[i]["sentiment"], r.events[i]["topic"]>> :
            i \in {j \in 1..Len(events) : TextOf(events[j]) # <<>>}}

(***************************************************************************)
(* worker.py: ConsumerWorker._process_batch                                *)
(***************************************************************************)
\* msgs, events = zip(*batch)
MsgsOf(b) == [i \in 1..Len(b) |-> b[i].msg]
EventsOf(b) == [i \in 1..Len(b) |-> b[i].event]

\* (partition, offset) of the messages of msgs.
PositionsOf(msgs) ==
    {<<msgs[i].partition, msgs[i].offset>> : i \in 1..Len(msgs)}

\* annotate_nlp mutates the dicts the batch holds.
WithEvents(b, events) ==
    [i \in 1..Len(b) |-> [msg |-> b[i].msg, event |-> events[i]]]

\* A commit map that keeps the first offset seen for each partition.
CommitMap_First(msgs) ==
    LET tps == {<<msgs[i].topic, msgs[i].partition>> : i \in 1..Len(msgs)}
        first(tp) ==
            CHOOSE i \in 1..Len(msgs) :
              /\ <<msgs[i].topic, msgs[i].partition>> = tp
              /\ \A j \in 1..(i - 1) :
                    <<msgs[j].topic, msgs[j].partition>> # tp
    IN  [tp \in tps |-> msgs[first(tp)].offset + 1]

\* offsets[tp] = msg.offset over msgs in order, then offset + 1 per entry.
CommitMap(msgs) ==
    LET tps == {<<msgs[i].topic, msgs[i].partition>> : i \in 1..Len(msgs)}
        last(tp) ==
            CHOOSE i \in 1..Len(msgs) :
              /\ <<msgs[i].topic, msgs[i].partition>> = tp
              /\ \A j \in (i + 1)..Len(msgs) :
                    <<msgs[j].topic, msgs[j].partition>> # tp
    IN  [tp \in tps |-> msgs[last(tp)].offset + 1]

\* A _process_batch that swallows the exception and goes on to the commit.
OnInsertError_Swallow == "continue"

\* What _process_batch does with an exception of insert_events: line 69 has
\* no handler, the exception leaves _process_batch.
OnInsertError == "propagate"

\* Lines 71-80, up to the await of consumer.commit.
RequestCommit(f) ==
    [f EXCEPT !.at = "committing",
              !.commitRequested = TRUE,
              !.commit_map = CommitMap(f.msgs)]

\* A retry policy without a stop condition.
AttemptFailed_NoStop(f) == [f EXCEPT !.at = "retry_sleep"]

\* tenacity after a failed attempt: sleep and retry, or give up with
\* RetryError once stop_after_attempt attempts were made.
AttemptFailed(f) ==
    IF f.attempt < stop_after_attempt THEN [f EXCEPT !.at = "retry_sleep"]
    ELSE IF OnInsertError = "propagate" THEN [f EXCEPT !.at = "raised"]
    ELSE RequestCommit(f)

\* One attempt of insert_events, from its start to its first await.
RunAttempt(f) ==
    IF f.given = <<>> THEN RequestCommit([f EXCEPT !.inserted = TRUE])
    ELSE IF RowsRaise(f.given) THEN AttemptFailed(f)
    ELSE [f EXCEPT !.at = "inserting"]

\* The record of a _process_batch call at its start: r is the result of
\* annotate_nlp, t the clock reading _run took before the call.
FlushOf(b, kind, t, r) ==
    [NoFlush EXCEPT !.kind = kind, !.now = t, !.msgs = MsgsOf(b),
                    !.given = r.events, !.before = committed]

\* A _process_batch that requests the commit before it inserts.
StartFlush_CommitFirst(b, kind, t, r) == RequestCommit(FlushOf(b, kind, t, r))

\* _process_batch from its call to its first await: insert_events is called
\* with the annotated events and makes its first attempt.
StartFlush(b, kind, t, r) ==
    RunAttempt([FlushOf(b, kind, t, r) EXCEPT !.attempt = 1, !.invoked = TRUE])

\* _process_batch resumed at the await it is suspended in: the sleep between
\* attempts ends, client.insert returns or raises, consumer.commit returns.
FlushOutcomes(f) ==
    IF f.at = "retry_sleep" THEN {RunAttempt([f EXCEPT !.attempt = @ + 1])}
    ELSE IF f.at = "inserting"
      THEN {RequestCommit([f EXCEPT !.inserted = TRUE]), AttemptFailed(f)}
    ELSE IF f.at = "committing" THEN {[f EXCEPT !.at = "returned"]}
    ELSE {}

\* A caller that starts _process_batch as a task of its own and goes on.
AwaitProcessBatch_Spawn == "await_msg"

\* "await self._process_batch(batch)": _run is suspended in the call until
\* _process_batch has returned or raised.
AwaitProcessBatch == "flush"

\* A commit that forgets the offsets of the partitions it does not name.
ApplyCommit_Reset(c, commit_map) ==
    [p \in Partitions |->
       IF <<Topic, p>> \in DOMAIN commit_map THEN commit_map[<<Topic, p>>]
       ELSE 0]

ApplyCommit(c, commit_map) ==
    [p \in Partitions |->
       IF <<Topic, p>> \in DOMAIN commit_map THEN commit_map[<<Topic, p>>]
       ELSE c[p]]

\* The step of _process_batch from f to g, and _run after the call: b is the
\* batch _run holds during the call.
FlushEffects(f, g, b) ==
    /\ fl' = g
    /\ insertLog' = IF g.at = "inserting"
                      THEN Append(insertLog, RowsOf(g.given)) ELSE insertLog
    /\ sink' = IF f.at = "inserting" /\ g.inserted
                 THEN sink \o RowsOf(f.given) ELSE sink
    /\ commitLog' = IF g.commitRequested /\ ~f.commitRequested
                      THEN Append(commitLog, g.commit_map) ELSE commitLog
    /\ committed' = IF g.at = "returned"
                      THEN ApplyCommit(committed, g.commit_map) ELSE committed
    /\ M_PROCESSED' = IF g.at = "returned"
                        THEN M_PROCESSED + Len(g.given) ELSE M_PROCESSED
    /\ taskPc' = IF g.at = "raised" THEN "failed"
                 ELSE IF g.at # "returned" THEN AwaitProcessBatch
                 ELSE IF g.kind \in {"final", "direct"} \/ stopping THEN "done"
                 ELSE "await_msg"
    /\ batch' = IF g.at = "returned" /\ g.kind = "loop" THEN <<>> ELSE b
    /\ last_flush' = IF g.at = "returned" /\ g.kind = "loop"
                       THEN g.now ELSE last_flush

\* await self._process_batch(b), to its first await.
CallProcessBatch(b, kind) ==
    LET r == annotate_nlp(EventsOf(b), cache)
    IN  /\ AnnotateEffects(EventsOf(b), r)
        /\ flushes' = flushes + 1
        /\ FlushEffects(NoFlush, StartFlush(b, kind, now, r),
                        WithEvents(b, r.events))

(***************************************************************************)
(* worker.py: ConsumerWorker.start, _run, stop; main.py: run               *)
(***************************************************************************)
\* worker.start(): make_consumer, consumer.start, create_task(self._run()).
Start ==
    /\ mainPc = "init"
    /\ mainPc' = "waiting"
    /\ consumer' = "started"
    /\ taskPc' = "created"
    /\ UNCHANGED <<stopping, batch, last_flush, now, fl, sink, committed,
                   nextOffset, M_CONSUMED, M_PROCESSED, dropped, accepted,
                   flushes, commitLog, insertLog, nlpVars, envVars>>

\* The task's first run: lines 37-40, up to the wait for a message.
RunBegin ==
    /\ taskPc = "created"
    /\ taskPc' = "await_msg"
    /\ batch' = <<>>
    /\ last_flush' = now
    /\ UNCHANGED <<mainPc, stopping, consumer, now, fl, sink, committed,
                   nextOffset, M_CONSUMED, M_PROCESSED, dropped, accepted,
                   flushes, commitLog, insertLog, nlpVars, envVars>>

\* The flush condition of line 51.
FlushDue(b, t, last) ==
    Len(b) >= BATCH_SIZE \/ (t - last) >= BATCH_FLUSH_SECONDS

\* One iteration of "async for msg in self.consumer": the consumer yields
\* the next message of partition p, lines 41-60 run to the next await.
Receive(p, value) ==
    LET o == nextOffset[p]
        msg == [topic |-> Topic, partition |-> p, offset |-> o, value |-> value]
        b == Append(batch, [msg |-> msg, event |-> ParseObj(value.data)])
    IN  /\ taskPc = "await_msg"
        /\ consumer = "started"
        /\ o < MaxOffset
        /\ nextOffset' = [nextOffset EXCEPT ![p] = o + 1]
        /\ UNCHANGED <<mainPc, stopping, consumer, now, envVars>>
        /\ IF ~ParseOk(value)
             THEN /\ dropped' = dropped \cup {<<p, o>>}
                  /\ UNCHANGED <<taskPc, batch, last_flush, fl, sink, committed,
                                 M_CONSUMED, M_PROCESSED, accepted, flushes,
                                 commitLog, insertLog, nlpVars>>
             ELSE /\ accepted' = accepted \cup {<<p, o>>}
                  /\ M_CONSUMED' = M_CONSUMED + 1
                  /\ UNCHANGED dropped
                  /\ IF FlushDue(b, now, last_flush)
                       THEN CallProcessBatch(b, "loop")
                     ELSE IF stopping /\ b # <<>>
                       THEN CallProcessBatch(b, "final")
                     ELSE /\ batch' = b
                          /\ taskPc' = IF stopping THEN "done" ELSE "await_msg"
                          /\ UNCHANGED <<last_flush, fl, sink, committed,
                                         M_PROCESSED, flushes, commitLog,
                                         insertLog, nlpVars>>

\* The task resumes inside _process_batch and runs to its next await, or to
\* the end of the iteration of _run that called it.
FlushStep ==
    /\ taskPc = "flush"
    /\ \E g \in FlushOutcomes(fl) : FlushEffects(fl, g, batch)
    /\ UNCHANGED <<mainPc, stopping, consumer, now, nextOffset, M_CONSUMED,
                   dropped, accepted, flushes, nlpVars, envVars>>

\* await self._task, then await self.consumer.stop(): the task returned, or
\* it ended with an exception, which the await raises in stop().
Joined(pc) ==
    IF pc = "done" THEN "stopped" ELSE IF pc = "failed" THEN "raised"
    ELSE "joining"

\* SIGTERM / SIGINT: run() leaves stop_event.wait() and calls worker.stop().
Stop ==
    /\ mainPc = "waiting"
    /\ stopping' = TRUE
    /\ mainPc' = Joined(taskPc)
    /\ consumer' = IF Joined(taskPc) = "stopped" THEN "stopped" ELSE consumer
    /\ UNCHANGED <<taskPc, batch, last_flush, now, fl, sink, committed,
                   nextOffset, M_CONSUMED, M_PROCESSED, dropped, accepted,
                   flushes, commitLog, insertLog, nlpVars, envVars>>

StopJoin ==
    /\ mainPc = "joining"
    /\ Joined(taskPc) # "joining"
    /\ mainPc' = Joined(taskPc)
    /\ consumer' = IF Joined(taskPc) = "stopped" THEN "stopped" ELSE consumer
    /\ UNCHANGED <<stopping, taskPc, batch, last_flush, now, fl, sink,
                   committed, nextOffset, M_CONSUMED, M_PROCESSED, dropped,
                   accepted, flushes, commitLog, insertLog, nlpVars, envVars>>

\* The monotonic clock advances.
Tick ==
    /\ now < MaxTime
    /\ now' = now + 1
    /\ UNCHANGED <<mainPc, stopping, consumer, taskPc, batch, last_flush, fl,
                   sink, committed, nextOffset, M_CONSUMED, M_PROCESSED,
                   dropped, accepted, flushes, commitLog, insertLog, nlpVars,
                   envVars>>

Next ==
    \/ Start
    \/ RunBegin
    \/ \E p \in Partitions : \E value \in WireValues(p, nextOffset[p]) :
         Receive(p, value)
    \/ FlushStep
    \/ Stop
    \/ StopJoin
    \/ Tick

Spec == Init /\ [][Next]_vars

\* The event loop runs every coroutine that is ready: the task of _run, when
\* the await it is suspended in has completed, and stop(), when the task it
\* awaits has ended.  The clock advances.  Whether a message or a signal
\* arrives is up to the environment.
FairSpec ==
    /\ Spec
    /\ WF_vars(RunBegin)
    /\ WF_vars(FlushStep)
    /\ WF_vars(StopJoin)
    /\ WF_vars(Tick)

(***************************************************************************)
(* annotate_nlp called directly, on event lists that carry transcripts.    *)
(***************************************************************************)
\* Texts of the input pool: one with a positive keyword, and two without a
\* keyword that differ only behind the cut at TextLimit.
TextPool == {<<"great">>, <<"x", "x", "y">>, <<"x", "x", "z">>}

TranscriptPool == {Absent, Str(<<>>)} \cup {Str(t) : t \in TextPool}

\* The dict of a call event: the base fields and a transcript.
EventWith(i, transcript) ==
    [ParseObj(CallValue(0, i, Absent).data) EXCEPT !["transcript"] = transcript]

AnnotateInputs ==
    UNION {{[i \in 1..n |-> EventWith(i, ts[i])] :
              ts \in [1..n -> TranscriptPool]} : n \in 0..MaxEvents}

\* await annotate_nlp(events): the coroutine has no await inside, it runs to
\* its return in one step.
CallAnnotate(events) ==
    /\ calls < MaxCalls
    /\ AnnotateEffects(events, annotate_nlp(events, cache))
    /\ UNCHANGED <<workerVars, envVars>>

NextAnnotate == \E events \in AnnotateInputs : CallAnnotate(events)

SpecAnnotate == Init /\ [][NextAnnotate]_vars

(***************************************************************************)
(* The worker beside the Read API (main.py starts both in one event loop). *)
(***************************************************************************)
\* GET /metrics/summary: one aggregation query over voc_events, run in the
\* executor.  The handler has its own ClickHouseRepo and touches nothing
\* the worker or the annotator holds.
ApiSummary ==
    /\ mainPc # "init"
    /\ apiRows' = Len(sink)
    /\ UNCHANGED <<workerVars, nlpVars, crashes>>

NextApi ==
    \/ Start
    \/ RunBegin
    \/ \E p \in Partitions : \E value \in WireValues(p, nextOffset[p]) :
         Receive(p, value)
    \/ FlushStep
    \/ Stop
    \/ StopJoin
    \/ Tick
    \/ ApiSummary

SpecApi == Init /\ [][NextApi]_vars

(***************************************************************************)
(* annotate_nlp called directly, on texts of every heuristic score.        *)
(***************************************************************************)
\* A positive keyword, a negative keyword, and one keyword of each kind
\* (score 0).
ScorePool == {<<"great">>, <<"bad">>, <<"bad", "great">>}

ScoreTranscripts == {Absent} \cup {Str(t) : t \in ScorePool}

ScoreInputs ==
    UNION {{[i \in 1..n |-> EventWith(i, ts[i])] :
              ts \in [1..n -> ScoreTranscripts]} : n \in 0..MaxEvents}

NextScore == \E events \in ScoreInputs : CallAnnotate(events)

SpecScore == Init /\ [][NextScore]_vars

(***************************************************************************)
(* The worker, killed and started again under the same consumer group.     *)
(***************************************************************************)
\* The log keeps its messages: a position read before holds what it held.
LogValues(p, o) ==
    IF <<p, o>> \in accepted THEN {CallValue(p, o, WireTranscript(p, o))}
    ELSE IF <<p, o>> \in dropped THEN {NotJsonValue, NoIdValue(p, o)}
    ELSE WireValues(p, o)

\* The process is killed at any point of its run.  What it held in memory
\* is gone (the batch, the cache, the counters); the sink and the group's
\* committed offsets stay.  The next process joins the same group with
\* enable_auto_commit=False: the consumer resumes at the committed offsets.
Crash ==
    /\ crashes < MaxCrashes
    /\ mainPc # "init"
    /\ crashes' = crashes + 1
    /\ mainPc' = "init"
    /\ stopping' = FALSE
    /\ consumer' = "none"
    /\ taskPc' = "none"
    /\ batch' = <<>>
    /\ last_flush' = 0
    /\ fl' = NoFlush
    /\ M_CONSUMED' = 0
    /\ M_PROCESSED' = 0
    /\ flushes' = 0
    /\ nextOffset' = committed
    /\ cache' = <<>>
    /\ calls' = 0
    /\ annIn' = <<>>
    /\ annOut' = <<>>
    /\ annGets' = <<>>
    /\ annSets' = <<>>
    /\ UNCHANGED <<now, sink, committed, dropped, accepted, commitLog,
                   insertLog, modelLog, verdicts, apiRows>>

NextCrash ==
    \/ Start
    \/ RunBegin
    \/ \E p \in Partitions : \E value \in LogValues(p, nextOffset[p]) :
         Receive(p, value)
    \/ FlushStep
    \/ Stop
    \/ StopJoin
    \/ Tick
    \/ Crash

SpecCrash == Init /\ [][NextCrash]_vars

(***************************************************************************)
(* _process_batch called directly, on batches whose records already carry  *)
(* a payload string: the records insert_events can turn into rows.         *)
(***************************************************************************)
\* A payload the caller has set: a JSON string.
PresetPayload == Str(<<"{}">>)

\* The message at position o of partition p and its parsed record, with the
\* payload set.
StorablePair(p, o) ==
    LET value == CallValue(p, o, WireTranscript(p, o))
    IN  [msg |-> [topic |-> Topic, partition |-> p, offset |-> o,
                  value |-> value],
         event |-> [ParseObj(value.data) EXCEPT !["payload"] = PresetPayload]]

\* The consumer yields the messages of a partition in increasing position
\* order.
InLogOrder(ps) ==
    \A i \in 1..Len(ps) : \A j \in (i + 1)..Len(ps) :
       ps[i][1] = ps[j][1] => ps[i][2] < ps[j][2]

\* Batches of 1..BATCH_SIZE messages taken from the log in order; positions
\* may be skipped (a dropped message leaves a gap).
BatchInputs ==
    UNION {{[i \in 1..n |-> StorablePair(ps[i][1], ps[i][2])] :
              ps \in {qs \in [1..n -> Partitions \X (0..MaxOffset)] :
                         InLogOrder(qs)}} :
             n \in 1..BATCH_SIZE}

\* worker.consumer is started (lines 25-26) and _process_batch(b) is awaited
\* by a caller other than _run.
CallBatch(b) ==
    /\ mainPc = "init"
    /\ taskPc = "none"
    /\ mainPc' = "direct"
    /\ consumer' = "started"
    /\ CallProcessBatch(b, "direct")
    /\ UNCHANGED <<stopping, now, nextOffset, M_CONSUMED, dropped, accepted,
                   envVars>>

NextBatch ==
    \/ \E b \in BatchInputs : CallBatch(b)
    \/ FlushStep

SpecBatch == Init /\ [][NextBatch]_vars

(***************************************************************************)
(* Successive _process_batch calls, each on the next messages of the log,  *)
(* with records that already carry a payload string.                       *)
(***************************************************************************)
\* The log of this run: every other message of partition 0 is malformed.
Malformed(p, o) == p = 0 /\ o % 2 = 0

\* The first position at or behind o whose message parses.
NextValid(p, o) == IF Malformed(p, o) THEN o + 1 ELSE o

\* The batch _run builds when the consumer yields messages of partitions
\* ps[i], ps[i+1], ... from positions at on: malformed messages are
\* skipped (lines 44-46), the others are appended in the order received.
RECURSIVE Yield(_, _, _)
Yield(ps, at, i) ==
    IF i > Len(ps) THEN <<>>
    ELSE LET o == NextValid(ps[i], at[ps[i]])
         IN  <<StorablePair(ps[i], o)>>
               \o Yield(ps, [at EXCEPT ![ps[i]] = o + 1], i + 1)

\* The consumer's positions after it has yielded the messages of b.
AfterBatch(b) ==
    [p \in Partitions |->
       LET os == {b[i].msg.offset :
                    i \in {j \in 1..Len(b) : b[j].msg.partition = p}}
       IN  IF os = {} THEN nextOffset[p]
           ELSE 1 + CHOOSE m \in os : \A n \in os : n <= m]

\* The loop has taken the next messages of partitions ps from the log and
\* awaits _process_batch on the batch of those that parsed; the call
\* before it, if any, has returned.
ConsumeBatch(ps) ==
    LET b == Yield(ps, nextOffset, 1)
    IN  /\ taskPc \in {"none", "done"}
        /\ mainPc \in {"init", "direct"}
        /\ flushes < MaxFlushes
        /\ mainPc' = "direct"
        /\ consumer' = "started"
        /\ nextOffset' = AfterBatch(b)
        /\ accepted' = accepted \cup PositionsOf(MsgsOf(b))
        /\ dropped' = dropped \cup
             UNION {{<<q, o>> :
                       o \in {x \in nextOffset[q]..(AfterBatch(b)[q] - 1) :
                                Malformed(q, x)}} : q \in Partitions}
        /\ M_CONSUMED' = M_CONSUMED + Len(b)
        /\ CallProcessBatch(b, "direct")
        /\ UNCHANGED <<stopping, now, envVars>>

\* The partitions of the messages one batch is built from: one message,
\* or two of the same or of different partitions.
PartitionRuns == UNION {[1..n -> Partitions] : n \in {1, 2}}

NextFlushes ==
    \/ \E ps \in PartitionRuns : ConsumeBatch(ps)
    \/ FlushStep

SpecFlushes == Init /\ [][NextFlushes]_vars

(***************************************************************************)
(* Properties.                                                             *)
(***************************************************************************)
InFlush == taskPc \in {"flush", "failed"} /\ fl.kind # "none"

\* (partition, offset) of the rows the sink holds.
Stored == {<<sink[i].event_id.v[1], sink[i].event_id.v[2]>> : i \in 1..Len(sink)}

\* C1: every _process_batch call is for a non-empty batch and hands
\* insert_events exactly as many records as the batch holds, and a commit is
\* requested for a batch only once the insert of that batch has returned
\* successfully; every commit request on record belongs to a flush.
C1_WriteBeforeCommit ==
    /\ InFlush =>
          /\ batch # <<>>
          /\ Len(fl.msgs) = Len(batch)
          /\ fl.invoked => Len(fl.given) = Len(batch)
    /\ fl.commitRequested => fl.invoked /\ fl.inserted
    /\ Len(commitLog) <= flushes
    /\ commitLog # <<>> => fl.inserted

\* A flush of a full batch in which insert_events was called with the whole
\* batch and is between two attempts: no commit has been requested.
C1_Witness ==
    /\ taskPc = "flush"
    /\ fl.invoked
    /\ fl.at = "retry_sleep"
    /\ Len(batch) = BATCH_SIZE
    /\ Len(fl.given) = BATCH_SIZE
    /\ ~fl.commitRequested

\* C2: once insert_events has failed on its 5th attempt, the error is out
\* of _process_batch (the task ended with it), no commit was requested and
\* the committed offsets are those from before the flush.
C2_NoCommitAfterExhaustion ==
    /\ fl.attempt <= stop_after_attempt
    /\ (fl.attempt = stop_after_attempt /\ fl.at # "inserting" /\ ~fl.inserted) =>
          /\ fl.at = "raised"
          /\ taskPc = "failed"
          /\ ~fl.commitRequested
          /\ commitLog = <<>>
          /\ committed = fl.before
    /\ taskPc = "failed" => fl.attempt = stop_after_attempt /\ committed = fl.before

\* Five attempts failed for a batch with messages of both partitions; the
\* committed offsets are unchanged.
C2_Witness ==
    /\ taskPc = "failed"
    /\ fl.attempt = stop_after_attempt
    /\ {fl.msgs[i].partition : i \in 1..Len(fl.msgs)} = Partitions
    /\ committed = fl.before
    /\ commitLog = <<>>

\* C3: every parsed message whose position is below the committed offset of
\* its partition has a row in the sink.
C3_CommittedIsStored ==
    \A a \in accepted : a[2] < committed[a[1]] => a \in Stored

\* After consumed messages, a stop signal and a flush whose insert failed
\* for good, parsed messages are not stored and no committed offset covers
\* them.
C3_Witness ==
    /\ taskPc = "failed"
    /\ stopping
    /\ dropped # {}
    /\ \E a \in accepted : a \notin Stored /\ committed[a[1]] <= a[2]

\* C4 (as claimed): whenever the loop waits for a message with a non-empty
\* batch and the flush interval has elapsed since the last flush, a flush
\* follows, whether or not a message or a stop signal arrives.
Overdue ==
    /\ taskPc = "await_msg"
    /\ batch # <<>>
    /\ now - last_flush >= BATCH_FLUSH_SECONDS

C4_Claim == [](Overdue => <>(flushes > 0))

\* C5 (as claimed): the pending batch never exceeds the threshold, a full
\* batch is not left waiting for the next message, and once the flush of a
\* full batch is over the batch is stored, the pending batch is empty, the
\* flush clock is reset and there was exactly one flush.
C5_Claim ==
    /\ Len(batch) <= BATCH_SIZE
    /\ Len(batch) = BATCH_SIZE => taskPc # "await_msg"
    /\ (fl.kind = "loop" /\ Len(fl.msgs) = BATCH_SIZE /\ taskPc # "flush") =>
          /\ PositionsOf(fl.msgs) \subseteq Stored
          /\ batch = <<>>
          /\ last_flush = fl.now
          /\ flushes = 1

\* C6 (as claimed): once the final flush of a non-empty batch is over it
\* has inserted and committed the batch; the connection is released only
\* after the task returned; when the task has returned every parsed message
\* is stored.
C6_Claim ==
    /\ (fl.kind = "final" /\ taskPc # "flush") =>
          /\ fl.at = "returned"
          /\ fl.inserted
          /\ PositionsOf(fl.msgs) \subseteq Stored
          /\ \A i \in 1..Len(fl.msgs) :
                committed[fl.msgs[i].partition] > fl.msgs[i].offset
    /\ consumer = "stopped" => taskPc = "done"
    /\ taskPc = "done" => accepted \subseteq Stored

\* C7 (as claimed): after the stop signal the connection is eventually
\* released, unless a flush is started (whose end depends on the sink).
C7_Claim == [](stopping => <>(consumer = "stopped" \/ flushes > 0))

\* C8: a message that fails to parse is in no batch, in no flushed batch and
\* in no sink row, and is not counted; every message taken from the log was
\* either dropped or appended, and every well-formed one was appended;
\* dropping a message leaves the batch, the counter and the loop as they
\* were.
WellFormed(msg) ==
    msg.value = CallValue(msg.partition, msg.offset,
                          WireTranscript(msg.partition, msg.offset))

C8_MalformedDropped ==
    /\ [](/\ \A i \in 1..Len(batch) : WellFormed(batch[i].msg)
          /\ \A i \in 1..Len(fl.msgs) : WellFormed(fl.msgs[i])
          /\ dropped \cap (PositionsOf(MsgsOf(batch)) \cup PositionsOf(fl.msgs)
                            \cup Stored \cup accepted) = {}
          /\ M_CONSUMED = Cardinality(accepted)
          /\ accepted \subseteq PositionsOf(MsgsOf(batch)) \cup Stored
          /\ \A p \in Partitions : \A o \in 0..(nextOffset[p] - 1) :
                <<p, o>> \in dropped \cup accepted)
    /\ [][dropped' # dropped =>
            /\ taskPc' = "await_msg"
            /\ batch' = batch
            /\ M_CONSUMED' = M_CONSUMED
            /\ flushes' = flushes]_vars

\* The first message of a partition was dropped and the next message of the
\* same partition is in the batch, behind another parsed message.
C8_Witness ==
    \E p \in Partitions :
      /\ <<p, 0>> \in dropped
      /\ <<p, 1>> \in PositionsOf(MsgsOf(batch))
      /\ Len(batch) >= 2
      /\ M_CONSUMED = Len(batch)

\* Every text given to call_model_batch_sync so far, in order.
RECURSIVE Flatten(_)
Flatten(ss) == IF ss = <<>> THEN <<>> ELSE Head(ss) \o Flatten(Tail(ss))

Submitted == Flatten(modelLog)

\* C9 (as claimed): events with the same text after truncation always get
\* the same sentiment and topic, and no text is given to the model-scoring
\* function more than once in the process lifetime.
C9_Claim ==
    /\ \A v \in verdicts : \A w \in verdicts :
          v[1] = w[1] => v[2] = w[2] /\ v[3] = w[3]
    /\ \A i \in 1..Len(Submitted) : \A j \in 1..Len(Submitted) :
          Submitted[i] = Submitted[j] => i = j

\* Indices of the last call's events whose text is empty.
EmptyIdx == {i \in 1..Len(annIn) : TextOf(annIn[i]) = <<>>}

\* C10: an event whose transcript is empty or absent comes back with
\* sentiment None, topic None and processed_at set; the call reads the
\* cache once per event with a text and never for the others, writes only
\* keys of texts, and gives the model no empty text; every returned record
\* has processed_at set.
C10_EmptyTranscript ==
    /\ Len(annOut) = Len(annIn)
    /\ \A i \in EmptyIdx :
          /\ annOut[i]["sentiment"] = None
          /\ annOut[i]["topic"] = None
          /\ annOut[i]["processed_at"] = DateTime
    /\ Len(annGets) = Len(annIn) - Cardinality(EmptyIdx)
    /\ \A j \in 1..Len(annGets) : annGets[j] # Sha256(<<>>)
    /\ \A j \in 1..Len(annSets) : annSets[j] # Sha256(<<>>)
    /\ Sha256(<<>>) \notin DOMAIN cache
    /\ \A j \in 1..Len(Submitted) : Submitted[j] # <<>>
    /\ EmptyIdx = 1..Len(annIn) =>
          annGets = <<>> /\ annSets = <<>>
    /\ \A i \in 1..Len(annOut) : annOut[i]["processed_at"] = DateTime

\* A call on an event without transcript and an event with an empty one:
\* both come back null-annotated and stamped, the cache was not touched.
C10_Witness ==
    /\ calls > 0
    /\ Len(annIn) = 2
    /\ annIn[1]["transcript"] = Absent
    /\ annIn[2]["transcript"] = Str(<<>>)
    /\ annOut[1]["sentiment"] = None
    /\ annOut[2]["processed_at"] = DateTime
    /\ annGets = <<>>
    /\ cache = <<>>

\* C11: one insert_events call makes at most 5 attempts; every append it
\* issues carries the rows of the whole batch; a failed attempt before the
\* 5th is followed by a sleep and then another attempt; once an attempt has
\* succeeded the call has returned (the caller went on to the commit), the
\* sink holds the batch once and no further attempt is made; when the call
\* has raised, 5 attempts were made, none succeeded, and no 6th follows.
C11_BoundedRetry ==
    /\ [](/\ fl.attempt <= stop_after_attempt
          /\ Len(insertLog) <= fl.attempt
          /\ \A k \in 1..Len(insertLog) : insertLog[k] = RowsOf(fl.given)
          /\ fl.at = "retry_sleep" =>
                fl.attempt < stop_after_attempt /\ ~fl.inserted
          /\ fl.inserted =>
                /\ fl.at \in {"committing", "returned"}
                /\ insertLog # <<>>
                /\ sink = RowsOf(fl.given)
          /\ fl.at = "raised" =>
                /\ fl.attempt = stop_after_attempt
                /\ ~fl.inserted
                /\ taskPc = "failed"
                /\ sink = <<>>)
    /\ [][/\ (fl.at = "retry_sleep" /\ fl' # fl) =>
               /\ fl'.attempt = fl.attempt + 1
               /\ fl'.given = fl.given
          /\ (fl.inserted \/ fl.at = "raised") =>
               /\ fl'.attempt = fl.attempt
               /\ insertLog' = insertLog
               /\ sink' = sink]_vars

\* A call on a full batch whose first two appends failed and whose third
\* succeeded: three appends of the whole batch, the batch stored once, the
\* call returned.
C11_Witness ==
    /\ fl.at = "returned"
    /\ fl.inserted
    /\ fl.attempt = 3
    /\ Len(insertLog) = 3
    /\ Len(fl.given) = BATCH_SIZE
    /\ Len(sink) = BATCH_SIZE

\* C12 (as claimed): delivery is at-least-once.  The messages of a batch
\* that is flushed after a crash and restart (redelivered: the committed
\* offsets precede them) are in the sink once that flush is over, unless the
\* sink refused five appends.
C12_Claim ==
    (/\ crashes > 0
     /\ fl.kind # "none"
     /\ taskPc # "flush"
     /\ Len(insertLog) < stop_after_attempt) =>
        PositionsOf(fl.msgs) \subseteq Stored

\* Positions of the messages of partition p in msgs, and the largest one.
OffsetsOf(msgs, p) ==
    {msgs[i].offset : i \in {j \in 1..Len(msgs) : msgs[j].partition = p}}

MaxOf(S) == CHOOSE m \in S : \A n \in S : n <= m

PartitionsOf(msgs) == {msgs[i].partition : i \in 1..Len(msgs)}

\* C13: a commit is requested exactly when the insert has returned; a flush
\* issues one commit request, whatever the number of messages, and the
\* request names the partitions of the batch's messages and no other, each
\* with (largest position of its messages in the batch) + 1; when the call
\* has returned the group's offsets are those of the request.
C13_SingleCommit ==
    /\ Len(commitLog) <= flushes
    /\ fl.commitRequested <=> fl.inserted
    /\ fl.commitRequested =>
          /\ commitLog = <<fl.commit_map>>
          /\ DOMAIN fl.commit_map =
                {<<Topic, p>> : p \in PartitionsOf(fl.msgs)}
          /\ \A p \in PartitionsOf(fl.msgs) :
                fl.commit_map[<<Topic, p>>] = MaxOf(OffsetsOf(fl.msgs, p)) + 1
    /\ fl.at = "returned" =>
          \A p \in Partitions :
             committed[p] = IF p \in PartitionsOf(fl.msgs)
                              THEN MaxOf(OffsetsOf(fl.msgs, p)) + 1
                              ELSE fl.before[p]

\* A batch of three messages, positions 0 and 2 of one partition and one of
\* the other, was stored and committed with one request of two entries.
C13_Witness ==
    /\ fl.at = "returned"
    /\ Len(fl.msgs) = 3
    /\ OffsetsOf(fl.msgs, 0) = {0, 2}
    /\ PartitionsOf(fl.msgs) = Partitions
    /\ Len(commitLog) = 1
    /\ commitLog[1][<<Topic, 0>>] = 3
    /\ committed[0] = 3

\* C14 (as claimed): after a flush has failed for good, a stop() that is
\* over has ended normally and has released the event-log connection.
C14_Claim ==
    (taskPc = "failed" /\ mainPc \in {"stopped", "raised"}) =>
        /\ mainPc = "stopped"
        /\ consumer = "stopped"

\* C15 (as claimed): once the stop flag is set, the loop does not go back
\* to wait for another message after the message it receives, whether that
\* message parsed or was dropped.
C15_Claim ==
    [][(stopping /\ nextOffset' # nextOffset) => taskPc' # "await_msg"]_vars

\* The keys annotate_nlp sets in a record.
AnnotationKeys == {"sentiment", "topic", "processed_at", "payload"}

\* C16: annotate_nlp returns as many records as it was given, each at the
\* position of its input (every other field is the input's), and each has
\* sentiment, topic, processed_at and payload set; a record with a text
\* has the score of its own text, whichever path scored it, and that text
\* is in the cache with this score; a record without text has sentiment
\* None.
C16_AllFinalized ==
    /\ Len(annOut) = Len(annIn)
    /\ \A i \in 1..Len(annIn) :
          /\ \A k \in Keys \ AnnotationKeys : annOut[i][k] = annIn[i][k]
          /\ \A k \in AnnotationKeys : annOut[i][k] # Absent
          /\ annOut[i]["topic"] = None
          /\ annOut[i]["processed_at"] = DateTime
          /\ IF TextOf(annIn[i]) = <<>>
               THEN annOut[i]["sentiment"] = None
               ELSE /\ annOut[i]["sentiment"] =
                         Float(rule_based_sentiment(TextOf(annIn[i])))
                    /\ Sha256(TextOf(annIn[i])) \in DOMAIN cache
                    /\ cache[Sha256(TextOf(annIn[i]))].sentiment =
                         annOut[i]["sentiment"]

\* A call on an empty cache with a high-confidence text first and a text
\* for the model second: the model's score is in the second record, the
\* heuristic's in the first.
C16_Witness ==
    /\ calls = 1
    /\ Len(annIn) = 2
    /\ annIn[1]["transcript"] = Str(<<"great">>)
    /\ annIn[2]["transcript"] = Str(<<"x", "x", "y">>)
    /\ modelLog = <<<<Take(<<"x", "x", "y">>, TextLimit)>>>>
    /\ annOut[1]["sentiment"] = Float(1)
    /\ annOut[2]["sentiment"] = Float(0)
    /\ annOut[2]["payload"] # Absent

\* The heuristic score of a text is strictly between -1 and 1.
LowScore(t) ==
    -1 < rule_based_sentiment(t) /\ rule_based_sentiment(t) < 1

\* The texts of events, in order, that are not empty, have no entry in
\* cache c and have a low heuristic score.
ForModel(events, c) ==
    LET texts == [i \in 1..Len(events) |-> TextOf(events[i])]
        Low(t) == t # <<>> /\ Sha256(t) \notin DOMAIN c /\ LowScore(t)
    IN  SelectSeq(texts, Low)

\* C17: the model function is called at most once per annotate_nlp call,
\* with exactly the texts of the call that are not empty, missed the cache
\* as it was before the call and have a heuristic score strictly between
\* -1 and 1 (not called when there is none); a text whose score is >= 1 or
\* <= -1 comes back with that score, is in the cache with it and was never
\* given to the model.
C17_ModelOnlyLowConfidence ==
    /\ [](/\ Len(modelLog) <= calls
          /\ \A k \in 1..Len(Submitted) :
                Submitted[k] # <<>> /\ LowScore(Submitted[k])
          /\ \A i \in 1..Len(annIn) :
                LET t == TextOf(annIn[i])
                IN  (t # <<>> /\ ~LowScore(t)) =>
                      /\ annOut[i]["sentiment"] =
                            Float(rule_based_sentiment(t))
                      /\ Sha256(t) \in DOMAIN cache
                      /\ cache[Sha256(t)].sentiment =
                            Float(rule_based_sentiment(t))
                      /\ \A k \in 1..Len(Submitted) : Submitted[k] # t)
    /\ [][calls' = calls + 1 =>
            modelLog' = IF ForModel(annIn', cache) = <<>> THEN modelLog
                        ELSE Append(modelLog, ForModel(annIn', cache))]_vars

\* A call on an empty cache with "bad" (score -1) and a text holding "bad"
\* and "great" (score 0): the first is scored by the heuristic and cached,
\* only the second went to the model.
C17_Witness ==
    /\ calls = 1
    /\ Len(annIn) = 2
    /\ annIn[1]["transcript"] = Str(<<"bad">>)
    /\ annIn[2]["transcript"] = Str(<<"bad", "great">>)
    /\ annOut[1]["sentiment"] = Float(-1)
    /\ Sha256(<<"bad">>) \in DOMAIN cache
    /\ modelLog = <<<<(<<"bad", "great">>)>>>>

\* The transcript a message carries on the wire is a non-empty string.
HasTranscript(msg) ==
    /\ msg.value.data["transcript"].tag = "str"
    /\ msg.value.data["transcript"].v # <<>>

\* C18 (as claimed): the record appended to the batch for a message whose
\* payload carries a non-empty transcript holds that transcript, and the
\* record handed to the sink writer for it has the sentiment of the
\* transcript.
C18_Claim ==
    /\ \A i \in 1..Len(batch) :
          HasTranscript(batch[i].msg) =>
            batch[i].event["transcript"] =
              batch[i].msg.value.data["transcript"]
    /\ \A i \in 1..Len(fl.given) :
          HasTranscript(fl.msgs[i]) =>
            fl.given[i]["sentiment"] =
              Float(rule_based_sentiment(
                      Take(fl.msgs[i].value.data["transcript"].v, TextLimit)))

\* C19 (as claimed): the payload of every record handed to insert_events
\* is the event as parsed: not a reference to the record, without the
\* annotation fields; json.dumps accepts it, and the append is issued.
C19_Claim ==
    fl.invoked =>
      /\ \A i \in 1..Len(fl.given) :
            /\ fl.given[i]["payload"] # SelfRef
            /\ ~JsonDumpsRaises(fl.given[i])
      /\ fl.given # <<>> => insertLog # <<>>

\* A _process_batch call is suspended in one of its awaits.
FlushInProgress == fl.at \in {"retry_sleep", "inserting", "committing"}

\* C20: while a _process_batch call is in progress the batch it was given
\* is the one _run holds, no message is taken from the log and no second
\* call is started; the cache changes and annotate_nlp runs only in the
\* step that starts a _process_batch call (annotate_nlp has no await, it is
\* over within that step); a Read API query and the stop call change
\* nothing the flush or the annotator uses.
C20_OneBatchInFlight ==
    /\ [](FlushInProgress => batch # <<>> /\ MsgsOf(batch) = fl.msgs)
    /\ [][/\ nextOffset' # nextOffset => ~FlushInProgress
          /\ flushes' # flushes =>
               ~FlushInProgress /\ flushes' = flushes + 1
          /\ (cache' # cache \/ calls' # calls) =>
               flushes' = flushes + 1 /\ calls' = calls + 1
          /\ (apiRows' # apiRows \/ stopping' # stopping) =>
               UNCHANGED <<batch, fl, cache, calls, nextOffset, flushes>>]_vars

\* A flush is between two attempts while messages are left in the log, the
\* stop call has set the flag and a Read API query was served.
C20_Witness ==
    /\ FlushInProgress
    /\ fl.at = "retry_sleep"
    /\ fl.attempt = 2
    /\ stopping
    /\ apiRows = 0
    /\ \E p \in Partitions : nextOffset[p] < MaxOffset

\* (partition, offset) of the message a row was made from.
RowPos(row) == <<row.event_id.v[1], row.event_id.v[2]>>

\* Rows of one partition stand in increasing position order in rows.
InPartitionOrder(rows) ==
    \A i \in 1..Len(rows) : \A j \in (i + 1)..Len(rows) :
       RowPos(rows[i])[1] = RowPos(rows[j])[1] =>
         RowPos(rows[i])[2] < RowPos(rows[j])[2]

\* C21: the log yields a partition's messages in increasing position, so
\* consumption order within a partition is position order.  The batch
\* holds the messages in that order, the i-th record given to
\* insert_events is the record of the batch's i-th message, every bulk
\* append lists its rows in that order, and the rows of a partition stand
\* in the sink in that order, within one append and across the appends of
\* successive batches, each message at most once.
C21_PartitionOrder ==
    /\ \A i \in 1..Len(batch) : \A j \in (i + 1)..Len(batch) :
          batch[i].msg.partition = batch[j].msg.partition =>
            batch[i].msg.offset < batch[j].msg.offset
    /\ \A i \in 1..Len(fl.given) :
          fl.given[i]["event_id"] =
            Uuid(fl.msgs[i].partition, fl.msgs[i].offset)
    /\ \A k \in 1..Len(insertLog) : InPartitionOrder(insertLog[k])
    /\ InPartitionOrder(sink)

\* Two batches were stored one after the other: positions 1 of partition 0
\* and 0 of partition 1, then positions 3 and 5 of partition 0.
C21_Witness ==
    /\ flushes = 2
    /\ fl.at = "returned"
    /\ Len(sink) = 4
    /\ RowPos(sink[1]) = <<0, 1>>
    /\ RowPos(sink[2]) = <<1, 0>>
    /\ RowPos(sink[3]) = <<0, 3>>
    /\ RowPos(sink[4]) = <<0, 5>>

\* C22: with each partition delivered in increasing position order, the
\* offsets requested for a partition grow strictly from one commit request
\* to the next one that names it; no step moves a committed offset
\* backwards; and a dropped message lies below a requested or committed
\* offset of its partition only when a valid message behind it in that
\* partition is in the sink.
C22_MonotoneCommits ==
    /\ [](/\ \A i \in 1..Len(commitLog) : \A j \in (i + 1)..Len(commitLog) :
                \A tp \in DOMAIN commitLog[i] \cap DOMAIN commitLog[j] :
                   commitLog[i][tp] < commitLog[j][tp]
          /\ \A d \in dropped :
                (\/ d[2] < committed[d[1]]
                 \/ \E k \in 1..Len(commitLog) :
                       /\ <<Topic, d[1]>> \in DOMAIN commitLog[k]
                       /\ d[2] < commitLog[k][<<Topic, d[1]>>]) =>
                  \E a \in Stored : a[1] = d[1] /\ a[2] > d[2])
    /\ [][\A p \in Partitions : committed'[p] >= committed[p]]_vars

\* Two flushes committed partition 0: offset 2 after position 1 was
\* stored (position 0 was dropped), then a larger offset after a later
\* position was stored (position 2 was dropped); partition 1 was committed
\* by the first request only.
C22_Witness ==
    /\ Len(commitLog) = 2
    /\ fl.at = "returned"
    /\ DOMAIN commitLog[1] = {<<Topic, 0>>, <<Topic, 1>>}
    /\ commitLog[1][<<Topic, 0>>] = 2
    /\ DOMAIN commitLog[2] = {<<Topic, 0>>}
    /\ commitLog[2][<<Topic, 0>>] = 4
    /\ {<<0, 0>>, <<0, 2>>} \subseteq dropped
    /\ committed[0] = 4
    /\ committed[1] = 1

====
